---- MODULE Spec2Model ----
(***************************************************************************)
(* Model of dorking_quack.py: main() gates a run on a credit projection,   *)
(* dispatches one process_dork call per (category, dork) to a thread pool, *)
(* and records each completed result in the per-category urls.txt and the  *)
(* combined all_urls.txt.                                                   *)
(***************************************************************************)
EXTENDS Integers, Sequences, FiniteSets, TLC

VARIABLES
    pc,               \* position of main(): load, quota, plan, confirm, dispatch, collect, done, aborted
    abort,            \* which early return of main() ended the run ("" while none)
    args,             \* parsed command line (argparse namespace)
    source,           \* what load_categorized_dorks finds at args.dorks
    categories,       \* dict returned by load_categorized_dorks, in insertion order
    tasks,            \* flattened list of (category, dork)
    quota,            \* monthly quota used for the projection
    used,             \* credits already used before this run
    credits_needed,   \* total_dorks * pages
    projected_used,   \* used + credits_needed
    shown,            \* TRUE once "Credits needed this run" has been printed
    said,             \* what the operator meant at the prompt: "" (not asked yet), "yes", "no"
    threads,          \* max_workers handed to ThreadPoolExecutor
    work,             \* one record per submitted future: the process_dork call and its result
    yielded,          \* futures already delivered by as_completed
    completed,        \* loop counter of the result loop
    dirs,             \* directories that exist under the output base
    files,            \* existing files: path -> sequence of lines
    all_urls_global,  \* in-memory combined set
    last_poll_time,   \* time of the last successful realtime poll
    clock,            \* last wall-clock reading taken by main()
    acctCalls,        \* requests sent to the account endpoint
    after_used,       \* used + credits_needed reported at the end of the run
    persisted,        \* quota record kept across runs
    prior,            \* the output folder as the run found it
    acctLog,          \* the requests sent to the account endpoint: when, and whether it answered well
    rec,              \* per future: how far the loop body has got with its result
    existingOf,       \* per future: the set `existing` read from the category file
    lock,             \* holder of threading.Lock (0: free)
    today,            \* wall-clock date at which the quota record is loaded
    loaded            \* QuotaState returned by the Quota Store's load

vars == <<pc, abort, args, source, categories, tasks, quota, used, credits_needed,
          projected_used, shown, threads, work, yielded, completed, dirs, files,
          all_urls_global, last_poll_time, clock,
          acctCalls, after_used, persisted, prior, said,
          acctLog, rec, existingOf, lock, today, loaded>>

----------------------------------------------------------------------------
(* Program constants *)

DEFAULT_THREADS == 8
DEFAULT_PAGES == 1
DEFAULT_QUOTA == 250
RETRIES == 3
BACKOFF == 2

(* Bounds of the model *)

MaxWork == 2         \* largest credits_needed of a run: dorks in the file times pages
MaxThreads == 1      \* the positive --threads value tried (besides the default)
MaxElapsed == 1      \* seconds of wall-clock time the result loop may observe
HardCap == 1         \* the positive --max-credits value tried
UsedArg == 10        \* the positive --used value tried
PollInterval == 1    \* the positive --poll-interval value tried
Epoch == 100         \* time.time() when the run starts
AcctQuota == 100     \* plan_searches_monthly reported by the account endpoint
AcctUsed == 5        \* searches_performed reported by the account endpoint
Year == 2026         \* the year of the run

----------------------------------------------------------------------------
(* Strings are sequences of characters; Python compares them by code point. *)

Code(c) == CASE c = " " -> 32 [] c = "a" -> 97 [] c = "b" -> 98 [] OTHER -> 120

RECURSIVE StrLess(_, _)
StrLess(s, t) ==
    IF s = <<>> THEN t # <<>>
    ELSE IF t = <<>> THEN FALSE
    ELSE IF Code(Head(s)) # Code(Head(t)) THEN Code(Head(s)) < Code(Head(t))
    ELSE StrLess(Tail(s), Tail(t))

RECURSIVE SortedM(_)
SortedM(S) ==
    IF S = {} THEN <<>>
    ELSE LET m == CHOOSE x \in S : \A y \in S : x = y \/ StrLess(y, x)
         IN  <<m>> \o SortedM(S \ {m})

\* sorted(S): the elements of S in ascending order
RECURSIVE Sorted(_)
Sorted(S) ==
    IF S = {} THEN <<>>
    ELSE LET m == CHOOSE x \in S : \A y \in S : x = y \/ StrLess(x, y)
         IN  <<m>> \o Sorted(S \ {m})

RECURSIVE LStrip(_)
LStrip(s) == IF s # <<>> /\ Head(s) = " " THEN LStrip(Tail(s)) ELSE s

RECURSIVE RStrip(_)
RStrip(s) ==
    IF s # <<>> /\ s[Len(s)] = " " THEN RStrip(SubSeq(s, 1, Len(s) - 1)) ELSE s

\* str.strip()
Strip(s) == LStrip(RStrip(s))

Range(s) == {s[k] : k \in 1..Len(s)}

Max(a, b) == IF a >= b THEN a ELSE b
Min(a, b) == IF a <= b THEN a ELSE b

RECURSIVE Pow(_, _)
Pow(b, k) == IF k = 0 THEN 1 ELSE b * Pow(b, k - 1)

----------------------------------------------------------------------------
(* URLs and provider responses *)

ua  == <<"a">>
ub  == <<"b">>
uas == <<"a", " ">>
NoLink == <<>>

Blocks == {"organic_results", "inline_links", "top_stories", "related_questions"}

Json(organic, stories) ==
    [b \in Blocks |-> CASE b = "organic_results" -> organic
                        [] b = "top_stories" -> stories
                        [] OTHER -> {}]

\* JSON bodies the search endpoint may answer with: per block, the "link" values
SerpData == { Json({ub, ua}, {}), Json({ub, NoLink}, {uas}) }

\* extract_urls_from_serp
ExtractUrls(data) == (UNION {data[b] : b \in Blocks}) \ {NoLink}

----------------------------------------------------------------------------
(* Paths under the output base *)

OutBase == <<"output">>
CatDir(c) == <<"output", c>>
CatFile(c) == <<"output", c, "urls.txt">>
CsvFile(c) == <<"output", c, "results.csv">>
CombinedFile == <<"output", "all_urls.txt">>

\* os.makedirs(path, exist_ok=True): the directory and its parents
EnsureDir(d, path) == d \cup {SubSeq(path, 1, k) : k \in 1..Len(path)}

Exists(f, path) == path \in DOMAIN f

\* open(path, "w") ... write lines
WriteFile(f, path, lines) ==
    [p \in DOMAIN f \cup {path} |-> IF p = path THEN lines ELSE f[p]]

\* open(path, "a") ... write lines
AppendFile(f, path, lines) ==
    [p \in DOMAIN f \cup {path} |->
        IF p = path THEN (IF Exists(f, path) THEN f[path] ELSE <<>>) \o lines
        ELSE f[p]]

----------------------------------------------------------------------------
(* Inputs *)

Cats == {"c1", "c2"}

\* the dork lines a section of the file may hold, in file order
DorkLines == << <<"x">>, <<"\"", "x">> >>

DorkList(n) == SubSeq(DorkLines, 1, n)

\* dicts load_categorized_dorks may return (category names are interchangeable,
\* so the first section is always c1)
CatDicts ==
    LET N == Len(DorkLines) IN
    {<<>>}
    \cup {<<[name |-> "c1", dorks |-> DorkList(n)]>> : n \in 0..N}
    \cup {<<[name |-> "c1", dorks |-> DorkList(nm[1])],
            [name |-> "c2", dorks |-> DorkList(nm[2])]>> :
            nm \in {x \in (1..N) \X (0..N) : x[1] + x[2] <= N}}

\* tasks: one (category, dork) per dork, in dict order
RECURSIVE Flatten(_)
Flatten(cs) ==
    IF cs = <<>> THEN <<>>
    ELSE [k \in 1..Len(Head(cs).dorks) |-> [cat |-> Head(cs).name, dork |-> Head(cs).dorks[k]]]
         \o Flatten(Tail(cs))

Sources == {[ok |-> FALSE, cats |-> <<>>]} \cup {[ok |-> TRUE, cats |-> d] : d \in CatDicts}

\* argparse defaults
Defaults ==
    [threads |-> DEFAULT_THREADS, pages |-> DEFAULT_PAGES, quota |-> DEFAULT_QUOTA,
     used |-> 0, max_credits |-> 0, csv |-> FALSE, auto_quota |-> FALSE,
     realtime |-> FALSE, poll_interval |-> 0]

\* command lines tried: the defaults with one option given
CommandLines ==
    {Defaults}
    \cup {[Defaults EXCEPT !.threads = w] : w \in {0, MaxThreads}}
    \cup {[Defaults EXCEPT !.pages = p] : p \in 0..MaxWork}
    \cup {[Defaults EXCEPT !.quota = 0], [Defaults EXCEPT !.used = -1],
          [Defaults EXCEPT !.used = UsedArg]}
    \cup {[Defaults EXCEPT !.max_credits = m] : m \in {-1, HardCap}}
    \cup {[Defaults EXCEPT !.csv = TRUE], [Defaults EXCEPT !.auto_quota = TRUE],
          [Defaults EXCEPT !.auto_quota = TRUE, !.max_credits = -1]}
    \cup {[Defaults EXCEPT !.realtime = r, !.poll_interval = i] :
             r \in BOOLEAN, i \in {0, PollInterval}}

\* what an earlier run may have left under the output base
Fresh == [dirs |-> {}, files |-> <<>>]
Leftover ==
    [dirs |-> {OutBase, CatDir("c1")},
     files |-> (CatFile("c1") :> <<uas>>) @@ (CombinedFile :> <<uas>>)]
OutputStates == {Fresh, Leftover}

\* options that change what the pool and the result loop do
Scheduling(a) ==
    /\ a.quota = DEFAULT_QUOTA /\ a.used = 0 /\ ~a.csv /\ ~a.auto_quota
    /\ a.realtime = (a.poll_interval > 0)

\* runs tried: up to MaxWork credits under the scheduling options on a fresh output
\* folder and under the defaults on a used one, one credit less otherwise
Tried(a, src, o) ==
    Len(Flatten(src.cats)) * Max(1, a.pages)
        <= (IF Scheduling(a) /\ (o = Fresh \/ a = Defaults) THEN MaxWork ELSE MaxWork - 1)

\* what the operator may type at the prompt
Answers == {<<>>, <<"Y">>, <<"y", "e", "s", " ">>, <<"n">>, <<"y", "e">>}

\* the operator's intent: Enter alone takes the default of "(Y/n)"
Meant(ans) == IF ans \in {<<>>, <<"Y">>, <<"y", "e", "s", " ">>} THEN "yes" ELSE "no"

Lower(s) == [k \in 1..Len(s) |-> IF s[k] = "Y" THEN "y" ELSE s[k]]

AcceptedM(ans) == ans = <<>> \/ Lower(Strip(ans))[1] = "y"

\* answer in ("", "y", "yes") after strip().lower()
Accepted(ans) == Lower(Strip(ans)) \in {<<>>, <<"y">>, <<"y", "e", "s">>}

\* outcomes of GET /account
AccountReplies == {"error", "malformed", "ok"}

FetchAccountM(reply) ==
    [ok |-> reply # "error", quota |-> AcctQuota, used |-> AcctUsed]

\* fetch_serpapi_account: (quota, used), or an exception
FetchAccount(reply) ==
    IF reply = "ok" THEN [ok |-> TRUE, quota |-> AcctQuota, used |-> AcctUsed]
    ELSE [ok |-> FALSE, quota |-> 0, used |-> 0]

\* wall-clock dates at which a run may load the quota record
Dates == [year : {Year - 1, Year}, month : {1, 12}, day : {1, 28}]

\* the date of the run whose searches are modelled
RunDate == [year |-> Year, month |-> 12, day |-> 28]

\* current period: the calendar month of the wall-clock date
PeriodOf(d) == <<d.year, d.month>>

NoRecord == [period |-> <<0, 0>>, used |-> 0]

\* a persisted record whose period does not name a month
Corrupt == [period |-> <<0, 0>>, used |-> UsedArg]

\* what the Quota Store may find persisted
StoredStates ==
    {NoRecord, Corrupt}
    \cup {[period |-> PeriodOf(d), used |-> u] : d \in Dates, u \in {0, UsedArg}}

QuotaLoadM(r, d) ==
    [period |-> PeriodOf(d), used |-> IF r.period[2] = d.month THEN r.used ELSE 0]

\* Quota Store load(): used carries forward within the period, else starts at 0
QuotaLoad(r, d) ==
    [period |-> PeriodOf(d), used |-> IF r.period = PeriodOf(d) THEN r.used ELSE 0]

\* Quota Store save(used)
QuotaSave(u) == [period |-> PeriodOf(today), used |-> u]

\* credits_needed = total_dorks * pages
CreditsNeeded(n, p) == n * p

Pages == Max(1, args.pages)

EffectiveThreadsM(w, n) == Max(1, n)

EffectiveThreadsZero(w, n) == Min(w, n)

\* threads = max(1, min(args.threads, total_dorks))
EffectiveThreads(w, n) == Max(1, Min(w, n))

HardCapExceededM(cap, need) == cap # 0 /\ need > cap + 1

\* if max_credits: ... if credits_needed > max_credits
HardCapExceeded(cap, need) == cap # 0 /\ need > cap

----------------------------------------------------------------------------
Init ==
    /\ pc = "load"
    /\ abort = ""
    /\ args \in CommandLines
    /\ source \in Sources
    /\ categories = <<>>
    /\ tasks = <<>>
    /\ quota = 0
    /\ used = 0
    /\ credits_needed = 0
    /\ projected_used = 0
    /\ shown = FALSE
    /\ threads = 0
    /\ work = <<>>
    /\ yielded = {}
    /\ completed = 0
    /\ prior \in OutputStates
    /\ Tried(args, source, prior)
    /\ dirs = prior.dirs
    /\ files = prior.files
    /\ said = ""
    /\ all_urls_global = {}
    /\ last_poll_time = 0
    /\ clock = Epoch
    /\ acctCalls = 0
    /\ after_used = 0
    /\ persisted = NoRecord
    /\ acctLog = <<>>
    /\ rec = <<>>
    /\ existingOf = <<>>
    /\ lock = 0
    /\ today = RunDate
    /\ loaded = NoRecord

\* state no step of main() before the result loop touches
Aux == <<rec, existingOf, lock, today, loaded>>

Abort(why) == pc' = "aborted" /\ abort' = why

NoTasksM(ts) == FALSE

\* if not tasks
NoTasks(ts) == ts = <<>>

\* main, "Load dorks" .. "No dorks to run"
LoadDorks ==
    /\ pc = "load"
    /\ IF ~source.ok
         THEN Abort("load_failed") /\ UNCHANGED <<categories, tasks>>
         ELSE /\ categories' = source.cats
              /\ tasks' = Flatten(source.cats)
              /\ IF NoTasks(tasks') THEN Abort("no_dorks")
                 ELSE pc' = "quota" /\ abort' = abort
    /\ UNCHANGED <<args, source, quota, used, credits_needed, projected_used, shown,
                   threads, work, yielded, completed, dirs, files, all_urls_global,
                   last_poll_time, clock, acctCalls, after_used, persisted, prior, said,
                   acctLog, Aux>>

AutoQuotaM(a) == TRUE

\* if args.auto_quota
AutoQuota(a) == a.auto_quota

\* main, "Auto-quota: fetch actual quota & used from SerpAPI"
ResolveQuota ==
    /\ pc = "quota"
    /\ IF AutoQuota(args)
         THEN \E reply \in AccountReplies :
                LET r == FetchAccount(reply) IN
                /\ acctCalls' = acctCalls + 1
                /\ acctLog' = Append(acctLog, [at |-> clock, ok |-> reply = "ok"])
                /\ IF r.ok
                     THEN quota' = r.quota /\ used' = r.used /\ pc' = "plan" /\ abort' = abort
                     ELSE Abort("auto_quota_failed") /\ UNCHANGED <<quota, used>>
         ELSE /\ quota' = Max(1, args.quota)
              /\ used' = Max(0, args.used)
              /\ pc' = "plan"
              /\ UNCHANGED <<abort, acctCalls, acctLog>>
    /\ UNCHANGED <<args, source, categories, tasks, credits_needed, projected_used, shown,
                   threads, work, yielded, completed, dirs, files, all_urls_global,
                   last_poll_time, clock, after_used, persisted, prior, said, Aux>>

\* main, "estimate credits" .. the --max-credits check
Plan ==
    /\ pc = "plan"
    /\ credits_needed' = CreditsNeeded(Len(tasks), Pages)
    /\ projected_used' = used + credits_needed'
    /\ shown' = TRUE
    /\ IF HardCapExceeded(args.max_credits, credits_needed')
         THEN Abort("hard_cap")
         ELSE pc' = "confirm" /\ abort' = abort
    /\ UNCHANGED <<args, source, categories, tasks, quota, used, threads, work, yielded,
                   completed, dirs, files, all_urls_global, last_poll_time, clock,
                   acctCalls, after_used, persisted, prior, said, acctLog, Aux>>

\* main, "Confirmation prompt"
Confirm ==
    /\ pc = "confirm"
    /\ \E ans \in Answers :
          /\ said' = Meant(ans)
          /\ IF Accepted(ans) THEN pc' = "dispatch" /\ abort' = abort ELSE Abort("declined")
    /\ UNCHANGED <<args, source, categories, tasks, quota, used, credits_needed,
                   projected_used, shown, threads, work, yielded, completed, dirs, files,
                   all_urls_global, last_poll_time, clock, acctCalls, after_used,
                   persisted, prior, acctLog, Aux>>

----------------------------------------------------------------------------
(* Worker pool *)

\* a submitted process_dork call that has not started
Queued ==
    [st |-> "queued", p |-> 0, attempt |-> 0, found |-> {},
     reqs |-> [k \in 1..Pages |-> 0], oks |-> [k \in 1..Pages |-> FALSE],
     got |-> [k \in 1..Pages |-> {}], sleeps |-> [k \in 1..Pages |-> <<>>]]

Indexes == DOMAIN work
Running == {i \in Indexes : work[i].st = "running"}
Finished == {i \in Indexes : work[i].st \in {"returned", "raised"}}

RECURSIVE SumSeq(_)
SumSeq(q) == IF q = <<>> THEN 0 ELSE Head(q) + SumSeq(Tail(q))

Calls(i) == SumSeq(work[i].reqs)
Oks(i) == Cardinality({k \in 1..Pages : work[i].oks[k]})

RECURSIVE CallsUpTo(_)
CallsUpTo(n) == IF n = 0 THEN 0 ELSE Calls(n) + CallsUpTo(n - 1)

RECURSIVE OksUpTo(_)
OksUpTo(n) == IF n = 0 THEN 0 ELSE Oks(n) + OksUpTo(n - 1)

\* requests sent to the search endpoint so far, and those answered successfully
SearchCalls == CallsUpTo(Len(work))
SearchOks == OksUpTo(Len(work))

\* main, "Adjust threads" .. executor.submit for every task
Dispatch ==
    /\ pc = "dispatch"
    /\ threads' = EffectiveThreads(args.threads, Len(tasks))
    /\ dirs' = UNION ({EnsureDir(dirs, OutBase)}
                      \cup {EnsureDir(dirs, CatDir(categories[k].name)) : k \in DOMAIN categories})
    /\ all_urls_global' = {}
    /\ work' = [i \in DOMAIN tasks |-> Queued]
    /\ completed' = 0
    /\ last_poll_time' = 0
    /\ rec' = [i \in DOMAIN tasks |-> "none"]
    /\ existingOf' = [i \in DOMAIN tasks |-> {}]
    /\ lock' = 0
    /\ pc' = "collect"
    /\ UNCHANGED <<abort, args, source, categories, tasks, quota, used, credits_needed,
                   projected_used, shown, yielded, files, clock, acctCalls, after_used,
                   persisted, prior, said, acctLog, today, loaded>>

WorkerFrame ==
    <<pc, abort, args, source, categories, tasks, quota, used, credits_needed,
      projected_used, shown, threads, yielded, completed, dirs, files, all_urls_global,
      last_poll_time, clock, acctCalls, after_used, persisted, prior, said,
      acctLog, Aux>>

\* a pool thread takes the next queued call
StartTask(i) ==
    /\ pc = "collect"
    /\ i \in Indexes
    /\ work[i].st = "queued"
    /\ \A j \in Indexes : j < i => work[j].st # "queued"
    /\ Cardinality(Running) < threads
    /\ work' = [work EXCEPT ![i].st = "running"]
    /\ UNCHANGED WorkerFrame

BackoffM(attempt) == BACKOFF * attempt

GiveUpM(attempt) == attempt >= RETRIES

\* backoff = BACKOFF ** attempt
Backoff(attempt) == Pow(BACKOFF, attempt)

\* if attempt > RETRIES
GiveUp(attempt) == attempt > RETRIES

NextPageM(w) ==
    [w EXCEPT !.st = "returned", !.attempt = 0]

\* process_dork after time.sleep(delay): the next page starts with attempt = 0, or
\* the call returns
NextPage(w) ==
    IF w.p + 1 >= Pages
    THEN [w EXCEPT !.st = "returned", !.attempt = 0]
    ELSE [w EXCEPT !.p = w.p + 1, !.attempt = 0]

PageOverM(w) == GiveUp(w.attempt)

\* the while loop of the page the call is at has ended, by break or by
\* attempt > RETRIES: the call is in time.sleep(delay)
PageOver(w) == w.oks[w.p + 1] \/ GiveUp(w.attempt)

\* calls inside the retry loop of a page, and calls in the sleep after a page
Requesting == {i \in Running : ~PageOver(work[i])}
Delaying == {i \in Running : PageOver(work[i])}

\* process_dork: serpapi_search answers; the page's URLs join found; break
SearchOk(i) ==
    /\ i \in Requesting
    /\ \E data \in SerpData :
         LET w == work[i]
             k == w.p + 1
             urls == ExtractUrls(data)
         IN  work' = [work EXCEPT ![i] =
                        [w EXCEPT !.found = w.found \cup urls,
                                  !.reqs[k] = w.reqs[k] + 1,
                                  !.oks[k] = TRUE,
                                  !.got[k] = urls]]
    /\ UNCHANGED WorkerFrame

\* process_dork: serpapi_search raises; retry after a backoff, or give the page up
SearchFail(i) ==
    /\ i \in Requesting
    /\ LET w == work[i]
           k == w.p + 1
           attempt == w.attempt + 1
           asked == [w EXCEPT !.reqs[k] = w.reqs[k] + 1, !.attempt = attempt]
       IN  work' = [work EXCEPT ![i] =
                      IF GiveUp(attempt) THEN asked
                      ELSE [asked EXCEPT !.sleeps[k] = Append(w.sleeps[k], Backoff(attempt))]]
    /\ UNCHANGED WorkerFrame

\* process_dork: time.sleep(delay) after a page ends
PageDelay(i) ==
    /\ i \in Delaying
    /\ work' = [work EXCEPT ![i] = NextPage(work[i])]
    /\ UNCHANGED WorkerFrame

\* process_dork ends with an exception its retry handler does not catch (raised
\* outside the try block, time.sleep(delay) included)
WorkerRaise(i) ==
    /\ i \in Running
    /\ work' = [work EXCEPT ![i].st = "raised"]
    /\ UNCHANGED WorkerFrame

----------------------------------------------------------------------------
(* Result loop *)

SafeDork(d) == [k \in 1..Len(d) |-> IF d[k] = "\"" THEN "'" ELSE d[k]]

\* existing: the stripped lines of the category file, if it exists
Existing(f, path) == IF Exists(f, path) THEN {Strip(l) : l \in Range(f[path])} ELSE {}

\* new_urls = sorted(u for u in urls if u not in existing)
NewUrls(urls, existing) == Sorted({u \in urls : u \notin existing})

CombinedLinesM(all) == SortedM(all)

\* the lines written to all_urls.txt
CombinedLines(all) == Sorted(all)

\* fut.result() returns instead of raising
Delivers(w) == w.st = "returned"

\* files after the new ones among urls, given the set read as existing, were
\* appended to the category file of task i (and to its CSV)
Appended(f, i, urls, ex) ==
    LET cat == tasks[i].cat
        new_urls == NewUrls(urls, ex)
        f1 == IF new_urls # <<>> THEN AppendFile(f, CatFile(cat), new_urls) ELSE f
    IN  IF args.csv
        THEN AppendFile(f1, CsvFile(cat),
                        [k \in 1..Len(new_urls) |->
                            <<cat, SafeDork(tasks[i].dork), new_urls[k]>>])
        ELSE f1

\* should the realtime branch call the account endpoint at time now
PollDue(now) ==
    IF args.poll_interval > 0 THEN now - last_poll_time >= args.poll_interval ELSE TRUE

AfterPollM(ok) == IF ok THEN "collect" ELSE "aborted"

\* where main() stands after a poll: "Realtime poll failed (non-fatal)" is only printed
AfterPoll(ok) == "collect"

PollState == <<last_poll_time, clock, acctCalls, acctLog, pc>>

\* futures whose result is inside the loop body
InRecord ==
    {i \in DOMAIN rec : rec[i] \in {"read", "append", "lock", "locked", "poll", "polling"}}

SequentialM(S) == TRUE

\* the loop body runs in the thread of main(): the next future is taken when the
\* body has finished with the one before
Sequential(S) == S = {}

LoopFrame ==
    <<abort, args, source, categories, tasks, quota, used, credits_needed,
      projected_used, shown, threads, work, after_used, persisted, prior, said,
      today, loaded>>

\* as_completed yields future i; fut.result() returns or raises
TakeResult(i) ==
    /\ pc = "collect"
    /\ i \in Finished \ yielded
    /\ Sequential(InRecord)
    /\ yielded' = yielded \cup {i}
    /\ completed' = completed + 1
    /\ rec' = [rec EXCEPT ![i] = IF Delivers(work[i]) THEN "read" ELSE "skipped"]
    /\ UNCHANGED <<dirs, files, all_urls_global, existingOf, lock, PollState, LoopFrame>>

\* ensure_dir(cat_folder); existing = the stripped lines of urls.txt
ReadExisting(i) ==
    /\ pc = "collect"
    /\ i \in DOMAIN rec /\ rec[i] = "read"
    /\ dirs' = EnsureDir(dirs, CatDir(tasks[i].cat))
    /\ existingOf' = [existingOf EXCEPT ![i] = Existing(files, CatFile(tasks[i].cat))]
    /\ rec' = [rec EXCEPT ![i] = "append"]
    /\ UNCHANGED <<yielded, completed, files, all_urls_global, lock, PollState, LoopFrame>>

\* new_urls appended to urls.txt (and results.csv)
AppendNew(i) ==
    /\ pc = "collect"
    /\ i \in DOMAIN rec /\ rec[i] = "append"
    /\ files' = Appended(files, i, work[i].found, existingOf[i])
    /\ rec' = [rec EXCEPT ![i] = "lock"]
    /\ UNCHANGED <<yielded, completed, dirs, all_urls_global, existingOf, lock, PollState,
                   LoopFrame>>

\* with lock:
AcquireLock(i) ==
    /\ pc = "collect"
    /\ i \in DOMAIN rec /\ rec[i] = "lock"
    /\ lock = 0
    /\ lock' = i
    /\ rec' = [rec EXCEPT ![i] = "locked"]
    /\ UNCHANGED <<yielded, completed, dirs, files, all_urls_global, existingOf, PollState,
                   LoopFrame>>

\* all_urls_global.update(urls); all_urls.txt rewritten; the lock is released
RewriteCombined(i) ==
    /\ pc = "collect"
    /\ i \in DOMAIN rec /\ rec[i] = "locked"
    /\ all_urls_global' = all_urls_global \cup work[i].found
    /\ files' = WriteFile(files, CombinedFile, CombinedLines(all_urls_global'))
    /\ lock' = 0
    /\ rec' = [rec EXCEPT ![i] = "poll"]
    /\ UNCHANGED <<yielded, completed, dirs, existingOf, PollState, LoopFrame>>

\* the realtime branch: now = time.time(); when a poll is due the request goes to the
\* account endpoint and main() waits for the answer, else the progress line ends
\* the iteration
PollAccount(i) ==
    /\ pc = "collect"
    /\ i \in DOMAIN rec /\ rec[i] = "poll"
    /\ IF args.realtime
         THEN \E now \in clock..(Epoch + MaxElapsed) :
                /\ clock' = now
                /\ IF PollDue(now)
                     THEN /\ acctCalls' = acctCalls + 1
                          /\ rec' = [rec EXCEPT ![i] = "polling"]
                     ELSE /\ acctCalls' = acctCalls
                          /\ rec' = [rec EXCEPT ![i] = "done"]
         ELSE /\ UNCHANGED <<clock, acctCalls>>
              /\ rec' = [rec EXCEPT ![i] = "done"]
    /\ UNCHANGED <<last_poll_time, acctLog, pc>>
    /\ UNCHANGED <<yielded, completed, dirs, files, all_urls_global, existingOf, lock,
                   LoopFrame>>

\* fetch_serpapi_account returns or raises: last_poll_time = now after an answer,
\* "Realtime poll failed (non-fatal)" otherwise; the progress line ends the iteration
AccountAnswer(i) ==
    /\ pc = "collect"
    /\ i \in DOMAIN rec /\ rec[i] = "polling"
    /\ \E reply \in AccountReplies :
          /\ acctLog' = Append(acctLog, [at |-> clock, ok |-> reply = "ok"])
          /\ last_poll_time' = IF FetchAccount(reply).ok THEN clock ELSE last_poll_time
          /\ pc' = AfterPoll(FetchAccount(reply).ok)
    /\ rec' = [rec EXCEPT ![i] = "done"]
    /\ UNCHANGED <<clock, acctCalls>>
    /\ UNCHANGED <<yielded, completed, dirs, files, all_urls_global, existingOf, lock,
                   LoopFrame>>

\* main after the pool has shut down: the closing report
Finish ==
    /\ pc = "collect"
    /\ yielded = Indexes
    /\ InRecord = {}
    /\ after_used' = used + credits_needed
    /\ pc' = "done"
    /\ UNCHANGED <<abort, args, source, categories, tasks, quota, used, credits_needed,
                   projected_used, shown, threads, work, yielded, completed, dirs, files,
                   all_urls_global, last_poll_time, clock, acctCalls, persisted, prior,
                   said, acctLog, Aux>>

Next ==
    \/ LoadDorks
    \/ ResolveQuota
    \/ Plan
    \/ Confirm
    \/ Dispatch
    \/ \E i \in DOMAIN tasks : StartTask(i)
    \/ \E i \in DOMAIN tasks : SearchOk(i)
    \/ \E i \in DOMAIN tasks : SearchFail(i)
    \/ \E i \in DOMAIN tasks : PageDelay(i)
    \/ \E i \in DOMAIN tasks : WorkerRaise(i)
    \/ \E i \in DOMAIN tasks : TakeResult(i)
    \/ \E i \in DOMAIN tasks : ReadExisting(i)
    \/ \E i \in DOMAIN tasks : AppendNew(i)
    \/ \E i \in DOMAIN tasks : AcquireLock(i)
    \/ \E i \in DOMAIN tasks : RewriteCombined(i)
    \/ \E i \in DOMAIN tasks : PollAccount(i)
    \/ \E i \in DOMAIN tasks : AccountAnswer(i)
    \/ Finish

Spec == Init /\ [][Next]_vars

----------------------------------------------------------------------------
(* Scheduling: a pool thread that can take a queued call does, a request that  *)
(* was sent returns or fails, a sleep ends, as_completed yields a finished     *)
(* future, the loop body goes on, and main() goes on when the pool has shut    *)
(* down                                                                        *)

\* a step of a pool thread, of the result loop, or the end of the run
RunStep ==
    \/ \E i \in DOMAIN tasks :
          \/ StartTask(i) \/ SearchOk(i) \/ SearchFail(i) \/ PageDelay(i) \/ WorkerRaise(i)
          \/ TakeResult(i) \/ ReadExisting(i) \/ AppendNew(i) \/ AcquireLock(i)
          \/ RewriteCombined(i) \/ PollAccount(i) \/ AccountAnswer(i)
    \/ Finish

\* while the pool or the loop can take a step, one of them does
Fairness == WF_vars(RunStep)

\* the runs of Init on an empty output folder: up to MaxWork credits with
\* --threads MaxThreads, one less otherwise, and a single dork with --realtime
FairInit ==
    /\ Init
    /\ prior = Fresh
    /\ args.realtime => Len(Flatten(source.cats)) <= 1
    /\ (args.threads = MaxThreads \/ Len(Flatten(source.cats)) * Max(1, args.pages) < MaxWork)

FairSpec == FairInit /\ [][Next]_vars /\ Fairness

----------------------------------------------------------------------------
(* Quota Store: the record persisted across runs, loaded when a run starts and *)
(* saved when it completes                                                     *)

DateLeq(d, e) ==
    \/ d.year < e.year
    \/ d.year = e.year /\ d.month < e.month
    \/ d.year = e.year /\ d.month = e.month /\ d.day <= e.day

QuotaFrame ==
    <<abort, args, source, categories, tasks, quota, credits_needed, projected_used,
      shown, said, threads, work, yielded, completed, dirs, files, all_urls_global,
      last_poll_time, clock, acctCalls, after_used, prior, acctLog, rec, existingOf,
      lock>>

QuotaInit ==
    /\ pc = "quota_load"
    /\ persisted \in StoredStates
    /\ today \in Dates
    /\ loaded = NoRecord
    /\ abort = "" /\ args = Defaults /\ source = [ok |-> TRUE, cats |-> <<>>]
    /\ categories = <<>> /\ tasks = <<>>
    /\ quota = DEFAULT_QUOTA /\ used = 0 /\ credits_needed = 0 /\ projected_used = 0
    /\ shown = FALSE /\ said = "" /\ threads = 0
    /\ work = <<>> /\ yielded = {} /\ completed = 0
    /\ prior = Fresh /\ dirs = {} /\ files = <<>>
    /\ all_urls_global = {} /\ last_poll_time = 0 /\ clock = Epoch
    /\ acctCalls = 0 /\ acctLog = <<>> /\ after_used = 0
    /\ rec = <<>> /\ existingOf = <<>> /\ lock = 0

\* start of a run: load() gives the usage the run starts from
QuotaLoadStep ==
    /\ pc = "quota_load"
    /\ loaded' = QuotaLoad(persisted, today)
    /\ used' = loaded'.used
    /\ pc' = "quota_loaded"
    /\ UNCHANGED <<persisted, today, QuotaFrame>>

\* end of a run that charged n credits: save(used + credits_needed)
QuotaSaveStep ==
    /\ pc = "quota_loaded"
    /\ \E n \in 1..MaxWork :
          /\ after_used' = used + n
          /\ persisted' = QuotaSave(used + n)
    /\ pc' = "quota_saved"
    /\ UNCHANGED <<used, loaded, today,
                   abort, args, source, categories, tasks, quota, credits_needed,
                   projected_used, shown, said, threads, work, yielded, completed, dirs,
                   files, all_urls_global, last_poll_time, clock, acctCalls, prior,
                   acctLog, rec, existingOf, lock>>

\* the next invocation, on the same day or later
QuotaNextRun ==
    /\ pc = "quota_saved"
    /\ persisted.used <= UsedArg + MaxWork
    /\ \E d \in Dates : DateLeq(today, d) /\ today' = d
    /\ pc' = "quota_load"
    /\ UNCHANGED <<used, loaded, persisted, QuotaFrame>>

QuotaNext == QuotaLoadStep \/ QuotaSaveStep \/ QuotaNextRun

QuotaSpec == QuotaInit /\ [][QuotaNext]_vars

----------------------------------------------------------------------------
(* Vocabulary of the properties *)

Delivered == {i \in Indexes : work[i].st = "returned"}
Raised == {i \in Indexes : work[i].st = "raised"}

\* URLs in the results the tasks returned
ReturnedUrls == UNION {work[i].found : i \in Delivered}

\* results the loop body has finished with (every statement down to the progress line)
RecordedResults == {i \in DOMAIN rec : rec[i] = "done"}

\* URLs of the results recorded for category c
RecordedFor(c) == UNION {work[i].found : i \in {j \in RecordedResults : tasks[j].cat = c}}

LinesIn(f, path) == IF Exists(f, path) THEN f[path] ELSE <<>>

NoDuplicates(lines) == \A j, k \in 1..Len(lines) : j # k => lines[j] # lines[k]

\* lines lists exactly the members of S in strictly ascending order
SortedListOf(lines, S) ==
    /\ Range(lines) = S
    /\ \A k \in 1..(Len(lines) - 1) : StrLess(lines[k], lines[k + 1])

Failures(w, k) == w.reqs[k] - (IF w.oks[k] THEN 1 ELSE 0)

OutputUntouched == dirs = prior.dirs /\ files = prior.files

----------------------------------------------------------------------------
(* C1 *)

\* C1 as stated: once every task has been processed, all_urls.txt holds exactly the
\* sorted, duplicate-free union of the URLs the tasks returned.
C1_AsStated ==
    pc = "done" => SortedListOf(LinesIn(files, CombinedFile), ReturnedUrls)

\* C1, amended: once every task has been processed, if at least one task returned a
\* result then all_urls.txt holds exactly the sorted, duplicate-free union of the URL
\* sets the tasks returned, whatever the completion order; if every task raised,
\* all_urls.txt is as the run found it.
C1_CombinedIsSortedUnion ==
    pc = "done" =>
        IF Delivered # {}
        THEN /\ Exists(files, CombinedFile)
             /\ SortedListOf(files[CombinedFile], ReturnedUrls)
             /\ all_urls_global = ReturnedUrls
        ELSE /\ Exists(files, CombinedFile) = Exists(prior.files, CombinedFile)
             /\ LinesIn(files, CombinedFile) = LinesIn(prior.files, CombinedFile)

C1_Witness ==
    /\ pc = "done"
    /\ Cardinality(Delivered) = 2
    /\ work[1].found # work[2].found
    /\ tasks[1].cat # tasks[2].cat
    /\ files[CombinedFile] = <<ua, uas, ub>>

----------------------------------------------------------------------------
(* C2 *)

\* C2 as stated: after any sequence of record operations on a category whose
\* urls.txt did not exist before the run, the file holds each URL at most once and
\* has as many lines as there are URLs in the union of all URL sets recorded for
\* the category.
C2_AsStated ==
    InRecord = {} =>
        \A c \in Cats :
            ~Exists(prior.files, CatFile(c)) =>
                LET lines == LinesIn(files, CatFile(c)) IN
                /\ NoDuplicates(lines)
                /\ Len(lines) = Cardinality(RecordedFor(c))

----------------------------------------------------------------------------
(* C3 *)

C3_Returned ==
    \A i \in Delivered :
        LET w == work[i] IN
        /\ \A k \in 1..Pages :
             /\ w.reqs[k] >= 1
             /\ ~w.oks[k] => w.reqs[k] = RETRIES + 1 /\ w.got[k] = {}
        /\ w.found = UNION {w.got[k] : k \in 1..Pages}

C3_LastFailure ==
    \A i \in Indexes :
        LET w == work[i]
            k == w.p + 1
        IN  /\ (w.st = "running" /\ w.attempt = RETRIES
                /\ work'[i].reqs[k] = w.reqs[k] + 1 /\ ~work'[i].oks[k])
               => /\ work'[i].found = w.found /\ work'[i].sleeps = w.sleeps
                  /\ work'[i].st = "running" /\ work'[i].p = w.p
                  /\ i \in Delaying'
            /\ (i \in Delaying /\ ~w.oks[k] /\ work'[i] # w /\ work'[i].st # "raised")
               => /\ work'[i].found = w.found /\ work'[i].reqs = w.reqs
                  /\ IF k < Pages
                     THEN work'[i].st = "running" /\ work'[i].p = k /\ work'[i].attempt = 0
                     ELSE work'[i].st = "returned"

\* C3: the failure that exhausts a page's retries adds no URL and does not end
\* process_dork with an exception: the call goes to the sleep after the page and
\* from there to the next page (or returns); a returned task has requested every
\* page, and its result is the union of the URLs of the pages that were answered.
C3_FailedPageIsSkipped == []C3_Returned /\ [][C3_LastFailure]_vars

C3_Witness ==
    \E i \in Delivered :
        /\ Pages = 2
        /\ work[i].reqs[1] = RETRIES + 1 /\ ~work[i].oks[1]
        /\ work[i].oks[2] /\ work[i].found = {ub, uas}

----------------------------------------------------------------------------
(* C4 *)

\* C4: a page is requested at most 4 times; the sleeps before its retries are 2, 4
\* and 8 seconds in that order, one per failure up to the third; after the fourth
\* failure the page was not answered and its retry loop is over (the call is in the
\* sleep after the page, past the page, or has ended).
C4_RetriesAndBackoff ==
    \A i \in Indexes :
        LET w == work[i] IN
        \A k \in 1..Pages :
            /\ w.reqs[k] <= 4
            /\ w.sleeps[k] = SubSeq(<<2, 4, 8>>, 1, Min(Failures(w, k), 3))
            /\ Failures(w, k) = 4 =>
                  /\ ~w.oks[k]
                  /\ w.st \in {"returned", "raised"} \/ w.p + 1 > k \/ w.attempt = RETRIES + 1

C4_Witness ==
    \E i \in Indexes :
        /\ work[i].reqs[1] = 4 /\ ~work[i].oks[1]
        /\ work[i].sleeps[1] = <<2, 4, 8>>
        /\ work[i].st = "returned"

----------------------------------------------------------------------------
(* C5 *)

\* C5 as stated: the tasks executing at one time never exceed min(W, n).
C5_AsStated ==
    Indexes # {} => Cardinality(Running) <= Min(args.threads, Len(tasks))

\* C5, amended: for W >= 1 the tasks executing at one time never exceed min(W, n);
\* for W <= 0 the pool has one worker, so at most one task executes at a time.
C5_ConcurrencyBound ==
    Indexes # {} =>
        Cardinality(Running) <= (IF args.threads >= 1 THEN Min(args.threads, Len(tasks)) ELSE 1)

C5_Witness ==
    /\ args.threads = DEFAULT_THREADS
    /\ Len(tasks) = MaxWork
    /\ Cardinality(Running) = Len(tasks)

----------------------------------------------------------------------------
(* C6 *)

\* C6 as stated: when a task's executor has raised, no destination holds a line that
\* is neither from before the run nor from a returned result, and the result of
\* every other task the loop has taken is in its category's urls.txt and in
\* all_urls.txt.
C6_AsStated ==
    (Raised # {} /\ InRecord = {}) =>
        /\ \A c \in Cats :
             Range(LinesIn(files, CatFile(c)))
                 \subseteq Range(LinesIn(prior.files, CatFile(c))) \cup RecordedFor(c)
        /\ \A i \in RecordedResults :
             /\ work[i].found \subseteq Range(LinesIn(files, CatFile(tasks[i].cat)))
             /\ work[i].found \subseteq Range(LinesIn(files, CombinedFile))

----------------------------------------------------------------------------
(* C7 *)

\* C7 as stated: the projection shown is credits_needed = tasks x pages and
\* projected_used = used_before + credits_needed, and once the run has completed (all
\* tasks resolved, returned or raised) the persisted quota record has used =
\* used_before + credits_needed.
C7_AsStated ==
    /\ shown => /\ credits_needed = Len(tasks) * Max(1, args.pages)
                /\ projected_used = used + credits_needed
    /\ pc = "done" => persisted.used = used + credits_needed

----------------------------------------------------------------------------
(* C8 *)

\* C8: when --max-credits is set and credits_needed exceeds it, the run has aborted
\* with nothing submitted, no search request sent, the output folder untouched and
\* the saved quota record unchanged.
C8_HardCapAborts ==
    (shown /\ args.max_credits # 0 /\ credits_needed > args.max_credits)
        => /\ pc = "aborted" /\ abort = "hard_cap"
           /\ work = <<>> /\ SearchCalls = 0
           /\ OutputUntouched
           /\ persisted = NoRecord

C8_Witness ==
    /\ abort = "hard_cap"
    /\ args.max_credits = HardCap
    /\ credits_needed = HardCap + 1
    /\ prior = Fresh /\ dirs = {}

----------------------------------------------------------------------------
(* C9 *)

\* C9 as stated: no request of any kind precedes the display of credits_needed, and
\* a hard-cap abort precedes all network activity.
C9_AsStated ==
    /\ ~shown => SearchCalls = 0 /\ acctCalls = 0
    /\ abort = "hard_cap" => SearchCalls = 0 /\ acctCalls = 0

\* C9, amended: no search request precedes the display of credits_needed, and a
\* hard-cap abort precedes every search request; without --auto-quota no request of
\* any kind precedes the display, with --auto-quota exactly one account-status
\* request does (it is sent before credits_needed is computed).
C9_DisplayBeforeSearch ==
    /\ ~shown => /\ work = <<>> /\ SearchCalls = 0
                 /\ acctCalls <= (IF args.auto_quota THEN 1 ELSE 0)
    /\ pc = "plan" => acctCalls = (IF args.auto_quota THEN 1 ELSE 0)
    /\ abort = "hard_cap" => /\ work = <<>> /\ SearchCalls = 0
                             /\ acctCalls = (IF args.auto_quota THEN 1 ELSE 0)

C9_Witness ==
    /\ args.auto_quota
    /\ abort = "hard_cap"
    /\ acctCalls = 1

----------------------------------------------------------------------------
(* C10 *)

\* C10: tasks are submitted only after the projection was shown and the operator
\* answered yes to the prompt; when the operator declines, the run has ended with
\* nothing submitted, no search request sent and the output folder untouched.
C10_ConfirmationGate ==
    /\ said # "" => shown
    /\ work # <<>> => shown /\ said = "yes"
    /\ said = "no" => /\ pc = "aborted" /\ abort = "declined"
                      /\ work = <<>> /\ SearchCalls = 0
                      /\ OutputUntouched

C10_Witness ==
    /\ abort = "declined"
    /\ said = "no"
    /\ prior = Fresh /\ dirs = {}

----------------------------------------------------------------------------
(* C11 *)

\* the dork source is missing or unreadable, or holds no dork line
BadSource == ~source.ok \/ \A k \in DOMAIN source.cats : source.cats[k].dorks = <<>>

\* C11: when the dork source cannot be loaded or yields no dork, main() goes from
\* loading straight to its return: no request to the search or the account endpoint,
\* nothing submitted, no quota figure computed or saved, and the output folder is
\* as the run found it (no directory, no file created).
C11_BadSourceAborts ==
    BadSource =>
        /\ pc \in {"load", "aborted"}
        /\ pc = "aborted" => abort = (IF source.ok THEN "no_dorks" ELSE "load_failed")
        /\ work = <<>> /\ SearchCalls = 0
        /\ acctLog = <<>> /\ acctCalls = 0
        /\ ~shown /\ after_used = 0 /\ persisted = NoRecord
        /\ OutputUntouched

C11_Witness ==
    /\ abort = "no_dorks"
    /\ Len(categories) = 1
    /\ args.auto_quota
    /\ prior = Fresh /\ dirs = {} /\ files = <<>>

----------------------------------------------------------------------------
(* C12 *)

\* C12: with --auto-quota, when the account request made before the projection
\* fails (transport error or an answer without the quota fields), the run has
\* aborted: quota and used were not set from --quota/--used, no projection was
\* shown, nothing was submitted, no search request was sent, no further account
\* request was made and the output folder and the quota record are untouched.
C12_AutoQuotaFailClosed ==
    (args.auto_quota /\ acctLog # <<>> /\ ~acctLog[1].ok) =>
        /\ pc = "aborted" /\ abort = "auto_quota_failed"
        /\ Len(acctLog) = 1
        /\ quota = 0 /\ used = 0 /\ ~shown /\ credits_needed = 0
        /\ work = <<>> /\ SearchCalls = 0
        /\ OutputUntouched
        /\ persisted = NoRecord

C12_Witness ==
    /\ abort = "auto_quota_failed"
    /\ tasks # <<>>
    /\ acctLog = <<[at |-> Epoch, ok |-> FALSE]>>
    /\ prior = Leftover /\ files = Leftover.files

----------------------------------------------------------------------------
(* C15 *)

C15_Order ==
    \A i \in Indexes :
        LET w == work[i] IN
        \A k \in 1..Pages :
            /\ (k > 1 /\ w.reqs[k] > 0) => (w.oks[k - 1] \/ w.reqs[k - 1] = RETRIES + 1)
            /\ (w.st = "queued" \/ (w.st = "running" /\ k > w.p + 1)) => w.reqs[k] = 0

C15_Step ==
    \A i \in Indexes :
        /\ work'[i].p \in {work[i].p, work[i].p + 1}
        /\ \A k \in 1..Pages :
              work'[i].reqs[k] # work[i].reqs[k]
                  => /\ work[i].st = "running" /\ k = work[i].p + 1
                     /\ work'[i].reqs[k] = work[i].reqs[k] + 1

\* C15: a task requests its pages in the order of their index: every request goes to
\* the page the task is at, the page index only moves forward by one, and a page
\* has been requested only if the page before it was answered or was requested
\* RETRIES + 1 times without an answer.
C15_PagesInOrder == []C15_Order /\ [][C15_Step]_vars

C15_Witness ==
    \E i \in Running :
        /\ Pages = 2
        /\ work[i].reqs[1] = RETRIES + 1 /\ ~work[i].oks[1]
        /\ work[i].reqs[2] = 2 /\ work[i].p = 1

----------------------------------------------------------------------------
(* C17 *)

FailedPolls == {k \in DOMAIN acctLog : ~acctLog[k].ok}

\* the result of future i has gone through the record operation: its URLs are in the
\* in-memory combined set and in all_urls.txt, and each of them is a line of the
\* category's urls.txt up to surrounding white space
IsRecorded(i) ==
    /\ work[i].found \subseteq all_urls_global
    /\ work[i].found \subseteq Range(LinesIn(files, CombinedFile))
    /\ \A u \in work[i].found : Strip(u) \in Existing(files, CatFile(tasks[i].cat))

\* C17: with --realtime, once a poll of the account endpoint has failed the run is
\* still in its result loop or has completed normally (never aborted), every
\* result that has reached the poll, the one that triggered the failed poll
\* included, has been recorded, no returned result is skipped, and the run completes
\* only after every future was taken and every returned result recorded.
C17_PollFailureNonFatal ==
    (args.realtime /\ FailedPolls # {}) =>
        /\ pc \in {"collect", "done"} /\ abort = ""
        /\ \A i \in DOMAIN rec : rec[i] \in {"poll", "polling", "done"} => IsRecorded(i)
        /\ \A i \in yielded \cap Delivered : rec[i] # "skipped"
        /\ pc = "done" => RecordedResults = Delivered
        /\ completed = Cardinality(yielded)
        /\ completed >= Cardinality(FailedPolls)
        /\ pc = "done" => yielded = Indexes

C17_Witness ==
    /\ args.realtime
    /\ pc = "done"
    /\ acctLog # <<>> /\ ~acctLog[1].ok
    /\ Cardinality(RecordedResults) = 2
    /\ work[1].found # work[2].found
    /\ files[CombinedFile] = <<ua, uas, ub>>

----------------------------------------------------------------------------
(* C18 *)

\* C18 as stated: with --realtime and --poll-interval > 0, any two consecutive
\* requests to the account endpoint, answered or failed, are at least poll_interval
\* seconds apart; with --poll-interval 0 there is exactly one request per recorded
\* result.
C18_AsStated ==
    args.realtime =>
        IF args.poll_interval > 0
        THEN \A k \in 1..(Len(acctLog) - 1) :
                 acctLog[k + 1].at - acctLog[k].at >= args.poll_interval
        ELSE Len(acctLog) = Cardinality(RecordedResults)

----------------------------------------------------------------------------
(* C19 *)

C19_Counts ==
    /\ \A i \in Indexes :
          \A k \in 1..Pages :
              work[i].oks[k] => /\ work[i].st # "queued" /\ work[i].p + 1 >= k
                                /\ work[i].p + 1 = k => i \notin Requesting
    /\ SearchOks <= credits_needed
    /\ SearchCalls <= (RETRIES + 1) * credits_needed

C19_NoRequestAfterSuccess ==
    \A i \in Indexes :
        \A k \in 1..Pages :
            work[i].oks[k] => work'[i].reqs[k] = work[i].reqs[k] /\ work'[i].oks[k]

\* C19: once a page of a task was answered, the task is out of that page's retry
\* loop (in the sleep after it, past it, or ended) and no step requests it again, so the successful search requests of a run never exceed
\* credits_needed = tasks x pages and the requests sent never exceed 4 x
\* credits_needed.
C19_SuccessEndsPage == []C19_Counts /\ [][C19_NoRequestAfterSuccess]_vars

C19_Witness ==
    /\ pc = "done"
    /\ credits_needed = MaxWork
    /\ SearchOks = credits_needed
    /\ \E i \in Indexes : work[i].oks[1] /\ work[i].reqs[1] = RETRIES + 1

----------------------------------------------------------------------------
(* C20 *)

CategoryUrls == UNION {Range(LinesIn(files, CatFile(c))) : c \in Cats}

\* C20 as stated: on an output folder that was empty, after every record operation
\* the lines of all_urls.txt, the lines of all the categories' urls.txt together
\* and the in-memory combined set are the same set of URLs; on a folder with
\* category files of an earlier run, every URL recorded in this run is a line of
\* its category's urls.txt and of all_urls.txt.
C20_AsStated ==
    (RecordedResults # {} /\ InRecord = {}) =>
        IF prior = Fresh
        THEN /\ Range(LinesIn(files, CombinedFile)) = CategoryUrls
             /\ Range(LinesIn(files, CombinedFile)) = all_urls_global
        ELSE \A i \in RecordedResults :
                 /\ work[i].found \subseteq Range(LinesIn(files, CatFile(tasks[i].cat)))
                 /\ work[i].found \subseteq Range(LinesIn(files, CombinedFile))

----------------------------------------------------------------------------
(* C14 *)

SamePeriod(r, d) == r.period[1] = d.year /\ r.period[2] = d.month

\* C14: what load() returns for the date of the run: the period is the calendar
\* month of that date; when the persisted period is another month (of this or
\* another year, or no month at all) used is 0 whatever used was stored, and when
\* it is this month used is the stored value.
C14_LoadResetsOnNewPeriod ==
    pc = "quota_loaded" =>
        /\ loaded.period = <<today.year, today.month>>
        /\ loaded.used = (IF SamePeriod(persisted, today) THEN persisted.used ELSE 0)
        /\ used = loaded.used

C14_Witness ==
    /\ pc = "quota_loaded"
    /\ persisted.period = <<Year - 1, 12>> /\ persisted.used > UsedArg
    /\ today = [year |-> Year, month |-> 12, day |-> 1]
    /\ loaded.used = 0

----------------------------------------------------------------------------
(* C13 *)

Locked == {i \in DOMAIN rec : rec[i] = "locked"}
Appending == {i \in DOMAIN rec : rec[i] \in {"read", "append"}}

C13_OneWriter ==
    /\ Cardinality(Locked) <= 1
    /\ lock # 0 <=> Locked # {}
    /\ lock # 0 => rec[lock] = "locked"
    /\ \A i, j \in Appending : tasks[i].cat = tasks[j].cat => i = j
    /\ \A i \in DOMAIN rec :
          rec[i] = "append" => existingOf[i] = Existing(files, CatFile(tasks[i].cat))

C13_WorkersDoNotWrite ==
    (pc = "collect" /\ work' # work) =>
        /\ files' = files /\ dirs' = dirs
        /\ all_urls_global' = all_urls_global
        /\ rec' = rec /\ lock' = lock

\* C13: whatever the pool threads do meanwhile, at most one result at a time is
\* inside the locked update-and-rewrite of all_urls.txt, two results of the same
\* category are never both between the read of urls.txt and the append to it, the
\* category file still holds at the append what was read from it, and no step of
\* a pool thread touches a destination, the combined set or the lock.
C13_RecordsSerialized == []C13_OneWriter /\ [][C13_WorkersDoNotWrite]_vars

C13_Witness ==
    \E i, j \in DOMAIN rec :
        /\ i # j /\ tasks[i].cat = tasks[j].cat
        /\ rec[i] = "locked" /\ lock = i
        /\ work[j].st = "returned" /\ j \notin yielded

----------------------------------------------------------------------------
(* C16 *)

C16_Counted ==
    /\ completed = Cardinality(yielded)
    /\ yielded \subseteq Finished
    /\ pc = "done" => /\ yielded = Indexes /\ completed = Len(tasks)
                      /\ Finished = Indexes /\ Len(work) = Len(tasks)

C16_Once ==
    /\ \A i \in Indexes :
          /\ work[i].st \in {"returned", "raised"} => work'[i] = work[i]
          /\ i \in yielded => i \in yielded'
    /\ completed' # completed =>
          /\ completed' = completed + 1
          /\ \E i \in Finished \ yielded : yielded' = yielded \cup {i}
    /\ pc = "done" => pc' = "done"

\* C16: a future has one outcome (returned or raised) that never changes; the
\* result loop takes only finished futures, each at most once, one per iteration;
\* and, every request returning or failing in finite time, a run that has
\* submitted its tasks reaches its end, where every task is finished and was taken
\* exactly once.
C16_EveryTaskResolvedOnce ==
    /\ []C16_Counted
    /\ [][C16_Once]_vars
    /\ (pc = "collect") ~> (pc = "done")

C16_Witness ==
    /\ pc = "done"
    /\ args.threads = MaxThreads
    /\ Len(tasks) = MaxWork
    /\ Raised # {} /\ Delivered # {}
    /\ completed = MaxWork

====
